---- MODULE Spec2Model ----
(***************************************************************************)
(* Model of setup.py, the development setup script of EntiDB Sync.         *)
(*                                                                         *)
(* Text is a sequence of one-character strings.  An optional value (the    *)
(* Python "str | None", or a value not yet assigned) is a sequence of      *)
(* length 0 (None) or 1.                                                   *)
(*                                                                         *)
(*   Spec            one run of main(), every external outcome drawn from  *)
(*                   the environment                                       *)
(*   SpecRunCommand  run_command as a function of the command, the state   *)
(*                   of the executable and of the working directory        *)
(*   SpecVersion     the minimum-version test of main() as a function of   *)
(*                   the version string and of the minimum                 *)
(***************************************************************************)
EXTENDS Integers, Sequences, FiniteSets, TLC

VARIABLES
    pc,            \* position in main() / the __main__ block
    env,           \* the toolchain and the package paths the run has met
    probe,         \* what run_command returned to check_dart_version
    dart_version,  \* main's dart_version
    idx,           \* position of the for loop in the list packages
    success,       \* main's success
    result,        \* the value main() returned
    exc,           \* the exception that left main()
    exitStatus,    \* the exit status of the process
    calls,         \* the file-system checks and subprocesses made so far
    args,          \* arguments of the function called on its own
    ret            \* what that function returned

vars == <<pc, env, probe, dart_version, idx, success, result, exc,
          exitStatus, calls, args, ret>>

mainVars == <<pc, env, probe, dart_version, idx, success, result, exc,
              exitStatus, calls>>

----------------------------------------------------------------------------
(* Bounds *)

\* exit codes of the external commands are 0..MaxExit
MaxExit == 1

\* a version string or a minimum has 1..MaxComponents components
MaxComponents == 3

----------------------------------------------------------------------------
(* Text *)

None == <<>>

Some(v) == <<v>>

Digits == {"0", "1", "2", "3", "4", "5", "6", "7", "8", "9"}

\* \d of the pattern, over the characters of the model
IsDigit(c) == c \in Digits

\* \s of the pattern
IsSpace(c) == c \in {" ", "\t", "\n"}

DigitVal(c) ==
    CASE c = "0" -> 0 [] c = "1" -> 1 [] c = "2" -> 2 [] c = "3" -> 3
      [] c = "4" -> 4 [] c = "5" -> 5 [] c = "6" -> 6 [] c = "7" -> 7
      [] c = "8" -> 8 [] c = "9" -> 9

Str_dart == <<"d", "a", "r", "t">>

Str_version_flag == <<"-", "-", "v", "e", "r", "s", "i", "o", "n">>

Str_pub == <<"p", "u", "b">>

Str_get == <<"g", "e", "t">>

\* the literal prefix of the pattern
Str_Label ==
    <<"D", "a", "r", "t", " ", "S", "D", "K", " ",
      "v", "e", "r", "s", "i", "o", "n", ":">>

Str_CommandNotFound ==
    <<"C", "o", "m", "m", "a", "n", "d", " ", "n", "o", "t", " ",
      "f", "o", "u", "n", "d", ":", " ">>

----------------------------------------------------------------------------
(* run_command *)

Return(code, out, err) ==
    [kind |-> "return", code |-> code, stdout |-> out, stderr |-> err,
     exc |-> "-"]

Raise(e) ==
    [kind |-> "raise", code |-> 0, stdout |-> <<>>, stderr |-> <<>>,
     exc |-> e]

\* subprocess.run(cmd, cwd=cwd, capture_output=True, text=True) on POSIX:
\* the child changes to cwd first and then executes cmd[0]; each failure
\* comes back as the OSError subclass of its errno.  exe is the state of
\* cmd[0] on the PATH, cwd the state of the working directory ("none" when
\* no cwd is given), proc what the process does once started.
subprocess_run(cmd, exe, cwd, proc) ==
    IF cwd = "missing" THEN Raise("FileNotFoundError")
    ELSE IF cwd = "file" THEN Raise("NotADirectoryError")
    ELSE IF exe = "missing" THEN Raise("FileNotFoundError")
    ELSE IF exe = "noperm" THEN Raise("PermissionError")
    ELSE Return(proc.code, proc.stdout, proc.stderr)

run_command(cmd, exe, cwd, proc) ==
    LET r == subprocess_run(cmd, exe, cwd, proc) IN
    IF r.kind = "raise" /\ r.exc = "FileNotFoundError"
    THEN Return(1, <<>>, Str_CommandNotFound \o cmd[1])
    ELSE r

----------------------------------------------------------------------------
(* check_dart_version *)

RECURSIVE SkipWhileDigit(_, _)
\* the position after the longest run of digits of s that starts at p
SkipWhileDigit(s, p) ==
    IF p <= Len(s) /\ IsDigit(s[p]) THEN SkipWhileDigit(s, p + 1) ELSE p

RECURSIVE SkipWhileSpace(_, _)
SkipWhileSpace(s, p) ==
    IF p <= Len(s) /\ IsSpace(s[p]) THEN SkipWhileSpace(s, p + 1) ELSE p

\* the literal lit stands in s at position p
LiteralAt(s, p, lit) ==
    /\ p + Len(lit) - 1 <= Len(s)
    /\ \A k \in 1..Len(lit) : s[p + k - 1] = lit[k]

RECURSIVE SkipWhileWord(_, _)
SkipWhileWord(s, p) ==
    IF p <= Len(s) /\ s[p] \in Digits \cup {"x", "v"}
    THEN SkipWhileWord(s, p + 1) ELSE p

\* mutant of MatchAt: the components are \w+ instead of \d+
MatchAt_WordComponents(s, p) ==
    IF ~LiteralAt(s, p, Str_Label) THEN None
    ELSE
      LET a  == SkipWhileSpace(s, p + Len(Str_Label))
          d1 == SkipWhileWord(s, a)
          d2 == SkipWhileWord(s, d1 + 1)
          d3 == SkipWhileWord(s, d2 + 1)
      IN  IF /\ d1 > a
             /\ d1 <= Len(s) /\ s[d1] = "."
             /\ d2 > d1 + 1
             /\ d2 <= Len(s) /\ s[d2] = "."
             /\ d3 > d2 + 1
          THEN Some(SubSeq(s, a, d3 - 1))
          ELSE None

\* Dart SDK version:\s*(\d+\.\d+\.\d+) matched at position p of s: group 1,
\* or None.  Every quantifier is greedy and what follows each of them cannot
\* start with a character the quantifier takes, so the longest run is the
\* only one that can lead to a match.
MatchAt(s, p) ==
    IF ~LiteralAt(s, p, Str_Label) THEN None
    ELSE
      LET a  == SkipWhileSpace(s, p + Len(Str_Label))
          d1 == SkipWhileDigit(s, a)
          d2 == SkipWhileDigit(s, d1 + 1)
          d3 == SkipWhileDigit(s, d2 + 1)
      IN  IF /\ d1 > a
             /\ d1 <= Len(s) /\ s[d1] = "."
             /\ d2 > d1 + 1
             /\ d2 <= Len(s) /\ s[d2] = "."
             /\ d3 > d2 + 1
          THEN Some(SubSeq(s, a, d3 - 1))
          ELSE None

RECURSIVE SearchFrom(_, _)
\* re.search: the match at the leftmost position that has one
SearchFrom(s, p) ==
    IF p > Len(s) THEN None
    ELSE IF MatchAt(s, p) # None THEN MatchAt(s, p)
    ELSE SearchFrom(s, p + 1)

\* mutant of check_dart_version: the exit code is not looked at
check_dart_version_IgnoresExit(r) == SearchFrom(r.stdout \o r.stderr, 1)

\* check_dart_version after its call of run_command returned r
check_dart_version(r) ==
    IF r.code # 0 THEN None
    ELSE SearchFrom(r.stdout \o r.stderr, 1)

----------------------------------------------------------------------------
(* version_tuple and the comparison of tuples *)

RECURSIVE Split(_, _)
\* str.split(sep) for a one-character separator
Split(s, sep) ==
    IF \A k \in 1..Len(s) : s[k] # sep THEN <<s>>
    ELSE LET k == CHOOSE j \in 1..Len(s) :
                      s[j] = sep /\ \A m \in 1..(j - 1) : s[m] # sep
         IN  <<SubSeq(s, 1, k - 1)>> \o Split(SubSeq(s, k + 1, Len(s)), sep)

\* int(x) accepts x (over the characters of the model: digits, "." and
\* letters)
IsIntLiteral(x) == Len(x) > 0 /\ \A k \in 1..Len(x) : IsDigit(x[k])

RECURSIVE IntOf(_)
IntOf(x) ==
    IF Len(x) = 0 THEN 0
    ELSE 10 * IntOf(SubSeq(x, 1, Len(x) - 1)) + DigitVal(x[Len(x)])

\* tuple(int(x) for x in version.split(".")); int raises ValueError
version_tuple(version) ==
    LET parts == Split(version, ".") IN
    IF \A k \in 1..Len(parts) : IsIntLiteral(parts[k])
    THEN [ok |-> TRUE, t |-> [k \in 1..Len(parts) |-> IntOf(parts[k])]]
    ELSE [ok |-> FALSE, t |-> <<>>]

RECURSIVE Decimal(_)
\* the decimal text of n >= 0
Decimal(n) ==
    LET d == CHOOSE c \in Digits : DigitVal(c) = n % 10 IN
    IF n < 10 THEN <<d>> ELSE Decimal(n \div 10) \o <<d>>

RECURSIVE DigitsLess(_, _)
\* x < y for two strings of digits
DigitsLess(x, y) ==
    IF Len(y) = 0 THEN FALSE
    ELSE IF Len(x) = 0 THEN TRUE
    ELSE IF x[1] # y[1] THEN DigitVal(x[1]) < DigitVal(y[1])
    ELSE DigitsLess(Tail(x), Tail(y))

RECURSIVE TupleLess_AsText(_, _)
\* mutant of TupleLess: the components are compared as text, as they are
\* when int() is left out
TupleLess_AsText(a, b) ==
    IF Len(b) = 0 THEN FALSE
    ELSE IF Len(a) = 0 THEN TRUE
    ELSE IF a[1] # b[1] THEN DigitsLess(Decimal(a[1]), Decimal(b[1]))
    ELSE TupleLess_AsText(Tail(a), Tail(b))

RECURSIVE TupleLess_Zip(_, _)
\* mutant of TupleLess: only the components both tuples have are compared
TupleLess_Zip(a, b) ==
    IF Len(b) = 0 \/ Len(a) = 0 THEN FALSE
    ELSE IF a[1] # b[1] THEN a[1] < b[1]
    ELSE TupleLess_Zip(Tail(a), Tail(b))

RECURSIVE TupleLess(_, _)
\* a < b for two tuples of int: the first differing element decides, and a
\* tuple that is a proper prefix of the other is the smaller
TupleLess(a, b) ==
    IF Len(b) = 0 THEN FALSE
    ELSE IF Len(a) = 0 THEN TRUE
    ELSE IF a[1] # b[1] THEN a[1] < b[1]
    ELSE TupleLess(Tail(a), Tail(b))

min_version == <<3, 10, 1>>

\* mutant of install_package_deps: the exit code is not looked at
install_package_deps_IgnoresCode(r) == TRUE

\* install_package_deps after its call of run_command returned r
install_package_deps(r) == r.code = 0

packages == <<"entidb_sync_protocol", "entidb_sync_client", "entidb_sync_server">>

\* Path.exists() of a path in state d
exists(d) == d # "missing"

\* version_tuple(dart_version) < min_version of main(), for any minimum:
\* "below", "ok", or the ValueError that version_tuple raises
below_minimum(version, minimum) ==
    LET v == version_tuple(version) IN
    IF ~v.ok THEN "ValueError"
    ELSE IF TupleLess(v.t, minimum) THEN "below"
    ELSE "ok"

----------------------------------------------------------------------------
(* The environment of a run *)

RECURSIVE Join(_)
\* component strings joined by "."
Join(parts) ==
    IF Len(parts) = 1 THEN parts[1]
    ELSE parts[1] \o <<".">> \o Join(Tail(parts))

Str_Junk == <<"n", "o", " ", "1", ".", "2">>

Str_Stable == <<" ", "(", "s", "t", "a", "b", "l", "e", ")">>

Banner(v) == Str_Label \o <<" ">> \o v \o Str_Stable

\* versions the toolchain may print
BannerVersions ==
    { Join(<<a, b, c>>) :
        a \in {<<"2">>, <<"3">>, <<"4">>},
        b \in {<<"9">>, <<"1", "0">>, <<"1", "1">>},
        c \in {<<"0">>, <<"1">>, <<"5">>} }

V_3_10_1 == <<"3", ".", "1", "0", ".", "1">>

V_3_10_5 == <<"3", ".", "1", "0", ".", "5">>

V_3_9_9 == <<"3", ".", "9", ".", "9">>

V_3_9_0 == <<"3", ".", "9", ".", "0">>

\* what "dart --version" may write to its standard output
StdoutTexts ==
    {<<>>, Str_Junk}
    \cup { Banner(v) : v \in BannerVersions }
    \cup { Str_Label \o V_3_10_1,
           Str_Label \o <<" ", "\t">> \o V_3_10_1,
           Str_Junk \o <<"\n">> \o Banner(V_3_10_5),
           Banner(V_3_9_9) \o <<"\n">> \o Banner(V_3_10_5),
           Str_Label \o <<" ", "3", ".", "x", ".", "1">>,
           Str_Label \o <<" ", "3", ".", "x", ".", "1", "\n">> \o Banner(V_3_10_5),
           Str_Label \o <<" ", "3", ".", ".", "1">>,
           Str_Label \o <<" ", "v">> \o V_3_10_1,
           Str_Label \o <<" ", "3", ".", "1", "0">>,
           Str_Label \o <<" ">> \o V_3_10_1 \o <<".", "7">>,
           Tail(Str_Label) \o <<" ">> \o V_3_10_1,
           Str_Label }

\* what it may write to its standard error
StderrTexts ==
    {<<>>, Str_Junk, Banner(V_3_10_5), Banner(V_3_9_9), <<".", "1">>,
     <<" ">> \o V_3_10_1}

ExitCodes == 0..MaxExit

Packages == 1..Len(packages)

ExeStates == {"ok", "missing", "noperm"}

\* what a run has seen of its environment when it starts: the state of the
\* dart executable is fixed, what stands at a package path and how "dart pub
\* get" exits there is entered when the run gets to it
Environments ==
    [dart : ExeStates,
     dirs : {[p \in Packages |-> "unknown"]},
     pub  : {[p \in Packages |-> None]}]

PathStates == {"dir", "missing", "file"}

NoEnv ==
    [dart |-> "ok", dirs |-> [p \in Packages |-> "unknown"],
     pub |-> [p \in Packages |-> None]]

VersionCmd == <<Str_dart, Str_version_flag>>

PubGetCmd == <<Str_dart, Str_pub, Str_get>>

Call(op, cmd, pkg) == [op |-> op, cmd |-> cmd, pkg |-> pkg]

----------------------------------------------------------------------------
(* main() *)

Init ==
    /\ pc = "start"
    /\ env \in Environments
    /\ probe = None
    /\ dart_version = None
    /\ idx = 0
    /\ success = TRUE
    /\ result = None
    /\ exc = None
    /\ exitStatus = None
    /\ calls = <<>>
    /\ args = None
    /\ ret = None

\* dart_version = check_dart_version()
Probe ==
    /\ pc = "start"
    /\ \E code \in ExitCodes, out \in StdoutTexts, err \in StderrTexts :
         LET r == run_command(VersionCmd, env.dart, "none",
                              [code |-> code, stdout |-> out, stderr |-> err])
         IN  IF r.kind = "raise"
             THEN /\ pc' = "raised"
                  /\ exc' = Some(r.exc)
                  /\ UNCHANGED <<probe, dart_version>>
             ELSE /\ pc' = "probed"
                  /\ probe' = Some(r)
                  /\ dart_version' = check_dart_version(r)
                  /\ exc' = exc
    /\ calls' = Append(calls, Call("run", VersionCmd, 0))
    /\ UNCHANGED <<env, idx, success, result, exitStatus, args, ret>>

\* if dart_version is None: return 1
CheckFound ==
    /\ pc = "probed"
    /\ IF dart_version = None
       THEN pc' = "done" /\ result' = Some(1) /\ probe' = probe
       ELSE pc' = "found" /\ result' = result /\ probe' = None
    /\ UNCHANGED <<env, dart_version, idx, success, exc, exitStatus, calls,
                   args, ret>>

\* mutant of CheckMinimum: a version below the minimum is only warned about
CheckMinimum_WarnOnly ==
    /\ pc = "found"
    /\ LET b == below_minimum(dart_version[1], min_version) IN
         /\ pc' = IF b = "ValueError" THEN "raised" ELSE "loop"
         /\ exc' = IF b = "ValueError" THEN Some("ValueError") ELSE exc
         /\ idx' = IF b = "ValueError" THEN idx ELSE 1
         /\ success' = IF b = "ValueError" THEN success ELSE TRUE
    /\ UNCHANGED <<env, probe, dart_version, result, exitStatus, calls,
                   args, ret>>

\* if version_tuple(dart_version) < min_version: return 1; else success = True
CheckMinimum ==
    /\ pc = "found"
    /\ LET b == below_minimum(dart_version[1], min_version) IN
         /\ pc' = CASE b = "ValueError" -> "raised"
                    [] b = "below" -> "done"
                    [] OTHER -> "loop"
         /\ exc' = IF b = "ValueError" THEN Some("ValueError") ELSE exc
         /\ result' = IF b = "below" THEN Some(1) ELSE result
         /\ idx' = IF b = "ok" THEN 1 ELSE idx
         /\ success' = IF b = "ok" THEN TRUE ELSE success
    /\ UNCHANGED <<env, probe, dart_version, exitStatus, calls, args, ret>>

\* mutant of PackageMissing: break instead of continue
PackageMissing_Break ==
    /\ pc = "loop"
    /\ idx \in Packages
    /\ \E d \in PathStates :
         /\ ~exists(d)
         /\ env' = [env EXCEPT !.dirs[idx] = d]
    /\ success' = FALSE
    /\ idx' = Len(packages) + 1
    /\ calls' = Append(calls, Call("exists", <<>>, idx))
    /\ UNCHANGED <<pc, probe, dart_version, result, exc, exitStatus,
                   args, ret>>

\* one turn of the loop for a package whose directory does not exist
PackageMissing ==
    /\ pc = "loop"
    /\ idx \in Packages
    /\ \E d \in PathStates :
         /\ ~exists(d)
         /\ env' = [env EXCEPT !.dirs[idx] = d]
    /\ success' = FALSE
    /\ idx' = idx + 1
    /\ calls' = Append(calls, Call("exists", <<>>, idx))
    /\ UNCHANGED <<pc, probe, dart_version, result, exc, exitStatus,
                   args, ret>>

\* mutant of PackageInstall: a failed installation is tried a second time
PackageInstall_Retry ==
    /\ pc = "loop"
    /\ idx \in Packages
    /\ \E d \in PathStates, code \in ExitCodes :
         /\ exists(d)
         /\ LET r == run_command(PubGetCmd, env.dart, d,
                                 [code |-> code, stdout |-> <<>>,
                                  stderr |-> <<>>])
            IN  IF r.kind = "raise"
                THEN /\ pc' = "raised"
                     /\ exc' = Some(r.exc)
                     /\ env' = [env EXCEPT !.dirs[idx] = d]
                     /\ calls' = calls \o <<Call("exists", <<>>, idx),
                                            Call("run", PubGetCmd, idx)>>
                     /\ UNCHANGED <<success, idx>>
                ELSE /\ success' = IF install_package_deps(r) THEN success
                                   ELSE FALSE
                     /\ idx' = idx + 1
                     /\ env' = [env EXCEPT !.dirs[idx] = d,
                                           !.pub[idx] = Some(r.code)]
                     /\ calls' = calls \o <<Call("exists", <<>>, idx),
                                            Call("run", PubGetCmd, idx)>>
                                   \o (IF install_package_deps(r) THEN <<>>
                                       ELSE <<Call("run", PubGetCmd, idx)>>)
                     /\ UNCHANGED <<pc, exc>>
    /\ UNCHANGED <<probe, dart_version, result, exitStatus, args, ret>>

\* one turn of the loop for a package whose path exists
PackageInstall ==
    /\ pc = "loop"
    /\ idx \in Packages
    /\ \E d \in PathStates, code \in ExitCodes :
         /\ exists(d)
         /\ LET r == run_command(PubGetCmd, env.dart, d,
                                 [code |-> code, stdout |-> <<>>,
                                  stderr |-> <<>>])
            IN  IF r.kind = "raise"
                THEN /\ pc' = "raised"
                     /\ exc' = Some(r.exc)
                     /\ env' = [env EXCEPT !.dirs[idx] = d]
                     /\ UNCHANGED <<success, idx>>
                ELSE /\ success' = IF install_package_deps(r) THEN success
                                   ELSE FALSE
                     /\ idx' = idx + 1
                     /\ env' = [env EXCEPT !.dirs[idx] = d,
                                           !.pub[idx] = Some(r.code)]
                     /\ UNCHANGED <<pc, exc>>
    /\ calls' = calls \o <<Call("exists", <<>>, idx), Call("run", PubGetCmd, idx)>>
    /\ UNCHANGED <<probe, dart_version, result, exitStatus, args, ret>>

\* after the loop: return 0 if success else 1
Finish ==
    /\ pc = "loop"
    /\ idx = Len(packages) + 1
    /\ result' = IF success THEN Some(0) ELSE Some(1)
    /\ pc' = "done"
    /\ UNCHANGED <<env, probe, dart_version, idx, success, exc, exitStatus,
                   calls, args, ret>>

\* sys.exit(main()): the value returned, or 1 with the traceback of an
\* exception nothing caught
Exit ==
    /\ pc \in {"done", "raised"}
    /\ exitStatus' = IF pc = "done" THEN result ELSE Some(1)
    /\ pc' = "exited"
    /\ UNCHANGED <<env, probe, dart_version, idx, success, result, exc,
                   calls, args, ret>>

Next ==
    \/ Probe
    \/ CheckFound
    \/ CheckMinimum
    \/ PackageMissing
    \/ PackageInstall
    \/ Finish
    \/ Exit

Spec == Init /\ [][Next]_vars

----------------------------------------------------------------------------
(* run_command called on its own *)

Commands == {VersionCmd, PubGetCmd}

CwdStates == {"none", "dir", "missing", "file"}

Processes == [code : ExitCodes, stdout : {<<>>, Str_Junk}, stderr : {<<>>, Str_Junk}]

Idle ==
    /\ pc = "idle"
    /\ env = NoEnv
    /\ probe = None
    /\ dart_version = None
    /\ idx = 0
    /\ success = TRUE
    /\ result = None
    /\ exc = None
    /\ exitStatus = None
    /\ calls = <<>>

InitRunCommand ==
    /\ Idle
    /\ args \in { Some([cmd |-> c, exe |-> x, cwd |-> d, proc |-> q]) :
                    c \in Commands, x \in ExeStates, d \in CwdStates,
                    q \in Processes }
    /\ ret = None

CallRunCommand ==
    /\ ret = None
    /\ ret' = Some(run_command(args[1].cmd, args[1].exe, args[1].cwd,
                               args[1].proc))
    /\ UNCHANGED <<mainVars, args>>

NextRunCommand ==
    \/ CallRunCommand

SpecRunCommand == InitRunCommand /\ [][NextRunCommand]_vars

----------------------------------------------------------------------------
(* The minimum-version test called on its own *)

VersionComponents == {<<"0">>, <<"1">>, <<"3">>, <<"9">>, <<"1", "0">>}

MalformedVersions ==
    { <<"3", ".", "x", ".", "1">>, <<"x">>, <<"3", ".", ".", "1">>, <<>> }

VersionStrings ==
    { Join(cs) : cs \in UNION { [1..n -> VersionComponents] :
                                  n \in 1..MaxComponents } }
    \cup MalformedVersions

MinimumComponents == {0, 1, 3, 10}

Minimums == UNION { [1..n -> MinimumComponents] : n \in 1..MaxComponents }

InitVersion ==
    /\ Idle
    /\ args \in { Some([version |-> v, minimum |-> m]) :
                    v \in VersionStrings, m \in Minimums }
    /\ ret = None

CallBelowMinimum ==
    /\ ret = None
    /\ ret' = Some(below_minimum(args[1].version, args[1].minimum))
    /\ UNCHANGED <<mainVars, args>>

NextVersion ==
    \/ CallBelowMinimum

SpecVersion == InitVersion /\ [][NextVersion]_vars

----------------------------------------------------------------------------
(* Orderings the claims are stated with *)

\* a < b in the numeric order of two tuples of one length: the first
\* component that differs is smaller in a
LexLess(a, b) ==
    \E k \in 1..Len(a) :
        /\ a[k] < b[k]
        /\ \A j \in 1..(k - 1) : a[j] = b[j]

\* a, right-padded with zeros to n components
Pad(a, n) == [k \in 1..n |-> IF k <= Len(a) THEN a[k] ELSE 0]

MaxLen(a, b) == IF Len(a) > Len(b) THEN Len(a) ELSE Len(b)

\* a < b after the shorter is right-padded with zeros
PaddedLess(a, b) == LexLess(Pad(a, MaxLen(a, b)), Pad(b, MaxLen(a, b)))

PaddedEqual(a, b) == Pad(a, MaxLen(a, b)) = Pad(b, MaxLen(a, b))

CharCode(c) == IF c = "." THEN 46 ELSE 48 + DigitVal(c)

\* x < y as strings of digits and dots
TextLess(x, y) ==
    \/ /\ Len(x) < Len(y)
       /\ \A k \in 1..Len(x) : x[k] = y[k]
    \/ \E k \in 1..MaxLen(x, y) :
        /\ k <= Len(x) /\ k <= Len(y)
        /\ CharCode(x[k]) < CharCode(y[k])
        /\ \A j \in 1..(k - 1) : x[j] = y[j]

\* the components of the detected version, as numbers
Detected == version_tuple(dart_version[1]).t

VersionCall == Call("run", VersionCmd, 0)

ExistsCall(p) == Call("exists", <<>>, p)

PubGetCall(p) == Call("run", PubGetCmd, p)

Made(c) == \E k \in 1..Len(calls) : calls[k] = c

Times(c) == Cardinality({ k \in 1..Len(calls) : calls[k] = c })

IsRun(c) == c.op = "run"

Terminated == pc \in {"done", "raised", "exited"}

Returned == result # None

----------------------------------------------------------------------------
(* C1 *)

\* the toolchain version was detected and is at least 3.10.1, every package
\* directory exists and every "dart pub get" exited 0
AllSucceeded ==
    /\ dart_version # None
    /\ ~LexLess(Detected, <<3, 10, 1>>)
    /\ \A p \in Packages : env.dirs[p] = "dir" /\ env.pub[p] = Some(0)

\* the command launched last could not be started in a way that gives no exit
\* code
LastLaunchHasNoExitCode ==
    /\ calls # <<>>
    /\ LET c == calls[Len(calls)] IN
         \/ c = VersionCall /\ env.dart = "noperm"
         \/ \E p \in Packages : c = PubGetCall(p) /\ env.dirs[p] = "file"

\* C1: for every combination of exit codes, outputs and package directories,
\* main() returns 0 exactly when the version was detected and is at least
\* 3.10.1, every package directory exists and every "dart pub get" exited 0,
\* and returns 1 otherwise; the process ends with no status but 0 and 1, and
\* with 0 in that case alone; main() ends without returning only where a
\* command could not be launched and so has no exit code.
C1_ExitStatus ==
    /\ Returned => result[1] = IF AllSucceeded THEN 0 ELSE 1
    /\ exitStatus # None => exitStatus[1] = IF AllSucceeded THEN 0 ELSE 1
    /\ pc = "done" => Returned
    /\ pc = "raised" => LastLaunchHasNoExitCode
    /\ pc = "exited" /\ ~Returned => LastLaunchHasNoExitCode

C1_Witness ==
    /\ pc = "exited"
    /\ result = Some(0)
    /\ exitStatus = Some(0)
    /\ Len(calls) = 7

----------------------------------------------------------------------------
(* C2 *)

\* C2: when check_dart_version returns no version or one below 3.10.1,
\* main() returns 1 having made no call but the version probe: no directory
\* was examined, no "dart pub get" run; and whatever a run does, the version
\* probe is the first thing it does.
C2_FailFast ==
    /\ ( /\ pc \in {"done", "exited"}
         /\ Returned
         /\ \/ dart_version = None
            \/ LexLess(Detected, <<3, 10, 1>>) )
       => /\ result = Some(1)
          /\ calls = <<VersionCall>>
    /\ calls # <<>> => calls[1] = VersionCall
    /\ pc = "found" => calls = <<VersionCall>>

C2_Witness ==
    /\ pc = "done"
    /\ dart_version = Some(V_3_9_9)
    /\ result = Some(1)
    /\ calls = <<VersionCall>>
    /\ \A p \in Packages : env.dirs[p] = "unknown"

----------------------------------------------------------------------------
(* C3 *)

\* C3: every run that passed the two toolchain checks and has ended has
\* processed each of the three packages.
C3_CollectAll ==
    (Terminated /\ idx >= 1) => \A p \in Packages : Made(ExistsCall(p))

----------------------------------------------------------------------------
(* C4 *)

\* C4: once the loop has passed a package whose directory does not exist,
\* success is false, "dart pub get" was not run for that package, the value
\* returned and the exit status are 1, and the next package of the list has
\* been attempted by the time the run ends.
C4_MissingDirectory ==
    \A p \in Packages :
        (idx > p /\ env.dirs[p] = "missing")
        => /\ success = FALSE
           /\ Made(ExistsCall(p))
           /\ ~Made(PubGetCall(p))
           /\ Returned => result = Some(1)
           /\ exitStatus # None => exitStatus = Some(1)
           /\ (Terminated /\ p < Len(packages)) => Made(ExistsCall(p + 1))
           /\ (pc = "loop" /\ idx = p + 1 /\ p < Len(packages))
              => ENABLED (PackageMissing \/ PackageInstall)

C4_Witness ==
    /\ pc = "exited"
    /\ env.dirs = <<"dir", "missing", "dir">>
    /\ env.pub = <<Some(0), None, Some(0)>>
    /\ Made(PubGetCall(1))
    /\ ~Made(PubGetCall(2))
    /\ Made(PubGetCall(3))
    /\ exitStatus = Some(1)

----------------------------------------------------------------------------
(* C10 *)

Names(cs) == [k \in 1..Len(cs) |-> IF cs[k].pkg = 0 THEN "-" ELSE packages[cs[k].pkg]]

\* C10: "dart --version" is run exactly once, "dart pub get" at most once
\* for a package, and the installations happen in the order of the list;
\* with a sufficient toolchain, three directories and three installers that
\* exit 0, the run makes the three installations in the order
\* entidb_sync_protocol, entidb_sync_client, entidb_sync_server and
\* returns 0.
C10_NoRetryFixedOrder ==
    /\ Times(VersionCall) = IF pc = "start" THEN 0 ELSE 1
    /\ \A p \in Packages : Times(PubGetCall(p)) <= 1
    /\ \A k \in 1..Len(calls) :
          IsRun(calls[k]) => calls[k] = VersionCall
                             \/ \E p \in Packages : calls[k] = PubGetCall(p)
    /\ \A j, k \in 1..Len(calls) :
          (j < k /\ IsRun(calls[j]) /\ IsRun(calls[k]))
          => calls[j].pkg < calls[k].pkg
    /\ ( /\ pc \in {"done", "exited"}
         /\ idx >= 1
         /\ \A p \in Packages : env.dirs[p] = "dir" /\ env.pub[p] = Some(0) )
       => /\ SelectSeq(calls, IsRun)
               = <<VersionCall, PubGetCall(1), PubGetCall(2), PubGetCall(3)>>
          /\ Names(SelectSeq(calls, IsRun))
               = <<"-", "entidb_sync_protocol", "entidb_sync_client",
                   "entidb_sync_server">>
          /\ result = Some(0)

C10_Witness ==
    /\ pc = "done"
    /\ dart_version = Some(V_3_10_5)
    /\ Names(SelectSeq(calls, IsRun))
         = <<"-", "entidb_sync_protocol", "entidb_sync_client",
             "entidb_sync_server">>
    /\ result = Some(0)

----------------------------------------------------------------------------
(* C5 *)

\* the command cannot be located or started
CannotStart(a) == a.exe \in {"missing", "noperm"} \/ a.cwd \in {"missing", "file"}

\* C5: run_command returns a result and raises nothing, however the command
\* fails to be located or started; when it cannot be located or started the
\* result has a non-zero exit code, an empty stdout and a stderr that names
\* the command.
C5_NeverRaises ==
    ret # None =>
        /\ ret[1].kind = "return"
        /\ CannotStart(args[1]) =>
              /\ ret[1].code # 0
              /\ ret[1].stdout = <<>>
              /\ ret[1].stderr = Str_CommandNotFound \o args[1].cmd[1]

----------------------------------------------------------------------------
(* C6 *)

\* v is <digits>.<digits>.<digits>
IsVersionText(v) ==
    \E i, j \in 1..Len(v) :
        /\ 1 < i /\ i + 1 < j /\ j < Len(v)
        /\ \A k \in 1..Len(v) :
              IF k \in {i, j} THEN v[k] = "." ELSE IsDigit(v[k])

\* the label stands at p, white space alone lies between it and a, and
\* a..e is a version with no digit after it
BannerAt(s, p, a, e) ==
    /\ LiteralAt(s, p, Str_Label)
    /\ IsDigit(s[a]) /\ IsDigit(s[e])
    /\ e = Len(s) \/ ~IsDigit(s[e + 1])
    /\ \A k \in (p + Len(Str_Label))..(a - 1) : IsSpace(s[k])
    /\ \A k \in a..e : IsDigit(s[k]) \/ s[k] = "."
    /\ IsVersionText(SubSeq(s, a, e))

HasBannerAt(s, p) ==
    /\ LiteralAt(s, p, Str_Label)
    /\ \E a \in (p + Len(Str_Label))..Len(s) : \E e \in a..Len(s) :
          BannerAt(s, p, a, e)

HasBanner(s) == \E p \in 1..Len(s) : HasBannerAt(s, p)

\* C6: check_dart_version returns None when the version command exits
\* non-zero, whatever it printed, and when it exits 0 and stdout followed by
\* stderr holds no "Dart SDK version: <major>.<minor>.<patch>"; otherwise it
\* returns the version of the leftmost one.
C6_DetectVersion ==
    pc = "probed" =>
        LET r == probe[1]
            s == r.stdout \o r.stderr
        IN  /\ r.code # 0 => dart_version = None
            /\ (r.code = 0 /\ ~HasBanner(s)) => dart_version = None
            /\ r.code = 0 =>
                 \A p \in 1..Len(s) :
                    (HasBannerAt(s, p) /\ \A q \in 1..(p - 1) : ~HasBannerAt(s, q))
                    => \A a \in (p + Len(Str_Label))..Len(s) : \A e \in a..Len(s) :
                          BannerAt(s, p, a, e) => dart_version = Some(SubSeq(s, a, e))

C6_Witness ==
    /\ pc = "probed"
    /\ probe[1].code = 0
    /\ probe[1].stdout = Banner(V_3_9_9) \o <<"\n">> \o Banner(V_3_10_5)
    /\ probe[1].stderr = Banner(V_3_10_5)
    /\ dart_version = Some(V_3_9_9)

----------------------------------------------------------------------------
(* C9 *)

----------------------------------------------------------------------------
(* C7 *)

\* the arguments are a well-formed version and a minimum
ValidArgs == version_tuple(args[1].version).ok

Parsed == version_tuple(args[1].version).t

\* C7: a version and a minimum of the same number of components: the test
\* says "below" exactly when the version is smaller in the numeric order of
\* the components, major first; 3.10.1 is not below 3.10.1, and 3.9.0 is,
\* though it is the greater as a string.
C7_NumericOrder ==
    /\ (ret # None /\ ValidArgs /\ Len(Parsed) = Len(args[1].minimum))
       => ret[1] = IF LexLess(Parsed, args[1].minimum) THEN "below" ELSE "ok"
    /\ below_minimum(V_3_10_1, min_version) = "ok"
    /\ below_minimum(V_3_9_0, min_version) = "below"
    /\ TextLess(V_3_10_1, V_3_9_0)

C7_Witness ==
    /\ args[1].version = V_3_9_0
    /\ args[1].minimum = <<3, 10, 1>>
    /\ TextLess(V_3_10_1, args[1].version)
    /\ ret = Some("below")

----------------------------------------------------------------------------
(* C8 *)

====
